---- MODULE Spec2Model ----
(***************************************************************************)
(* Model of src/app.py: SlackTelegramBot, the relay of Slack mentions to   *)
(* Telegram.  Socket Mode worker threads run socket_mode_event_handler;    *)
(* one asyncio task runs process_event_queue / process_message.            *)
(* Every line of the handler and of the loop that touches event_queue or   *)
(* processed_events is a step of its own: the structures carry no lock.    *)
(* Lines that touch only locals are part of the step before them.          *)
(***************************************************************************)
EXTENDS Integers, Sequences, FiniteSets, TLC

\* ---------------------------------------------------------------- bounds
NThreads == 2
MaxDeliveries == 2

Threads == 1..NThreads

\* ------------------------------------------------------------ data values
\* A key that is missing from a dict (dict.get gives None).
Absent == "ABSENT"
\* Python's None, written as str() / an f-string renders it.
PyNone == "None"
\* a lookup response without the expected name field
Malformed == "MALFORMED"

OwnUserId == "U1"
MsgIds == {"m1", "m2"}
IdValues == MsgIds \cup {Absent, ""}
TypeValues == {"message", "reaction_added"}
UserValues == {"U2", Absent, ""}
\* 'text' missing from the event; texts are sequences, so this one is too
NoText == <<"ABSENT">>
\* Texts are sequences of tokens; "<@", an id and ">" are tokens of their own.
TextValues == { <<"<@", "U1", ">", "ping">>,
                <<"hi", "<@", "None", ">">>,
                <<"hello">>,
                NoText }
RealNames == {"Ann"}
ChannelNames == {"general", "random"}
\* the content of channel_emojis.json
EmojiFile == [c \in {"general"} |-> "wrench"]
EmptyTable == [c \in {} |-> ""]

\* req.payload: has_event says whether payload['event'] exists.
EventPayloads == [has_event : {TRUE}, client_msg_id : IdValues, type : TypeValues,
                  text : TextValues, user : UserValues, channel : {"C1"}]
\* a payload of another request type (slash command, interactive): no 'event'
NoEventPayload == [has_event |-> FALSE, client_msg_id |-> Absent, type |-> Absent,
                   text |-> NoText, user |-> Absent, channel |-> Absent]
\* event_data before the first popleft
NoEvent == [has_event |-> FALSE, client_msg_id |-> Absent, type |-> "NO_EVENT",
            text |-> NoText, user |-> Absent, channel |-> Absent]
\* A mention of the bot's user by U2 in C1, the event the relay exists for.
MentionEvent == [has_event |-> TRUE, client_msg_id |-> "m1", type |-> "message",
                 text |-> <<"<@", "U1", ">", "ping">>, user |-> "U2", channel |-> "C1"]
\* The payloads delivered: the mention, every payload that differs from it in
\* one field, and the payload without an event.
Payloads ==
    {[MentionEvent EXCEPT !.client_msg_id = v] : v \in IdValues}
    \cup {[MentionEvent EXCEPT !.type = v] : v \in TypeValues}
    \cup {[MentionEvent EXCEPT !.text = v] : v \in TextValues}
    \cup {[MentionEvent EXCEPT !.user = v] : v \in UserValues}
    \cup {NoEventPayload}

\* ------------------------------------------------------------------ state
VARIABLES main,             \* "new", "running", "crashed": module-level bot = SlackTelegramBot()
          user_id,          \* self.user_id
          channel_emojis,   \* self.channel_emojis
          event_queue,      \* self.event_queue (deque)
          processed_events, \* self.processed_events (set)
          hpc, hreq,        \* per worker thread: line of socket_mode_event_handler, its req
          nDelivered,       \* requests handed to the listener so far
          acks, raised,     \* envelope ids acknowledged / whose handler raised
          dpc,              \* line of process_event_queue / process_message
          cur,              \* event_data of the dispatcher
          user_info, channel_info,  \* locals of process_message
          trace,            \* what processing of cur has done so far
          sent,             \* messages the Telegram bot has sent
          done,             \* event_data whose process_message returned
          accepted          \* payloads appended to event_queue, in order

vars == <<main, user_id, channel_emojis, event_queue, processed_events, hpc, hreq,
          nDelivered, acks, raised, dpc, cur, user_info, channel_info, trace,
          sent, done, accepted>>

hvars == <<hpc, hreq, nDelivered, acks, raised>>
dvars == <<dpc, cur, user_info, channel_info, trace, sent, done>>
cvars == <<main, user_id, channel_emojis>>

NoTrace == [lookups |-> 0, lookup_failed |-> FALSE, sends |-> 0, send_failed |-> FALSE,
            returned |-> FALSE]
NoReq == [payload |-> NoEventPayload, envelope_id |-> 0]

\* ------------------------------------------------------------- operators
\* Python truthiness of a str-or-None value.
Truthy(v) == v \notin {Absent, ""}

\* sub in s, for token sequences
Contains(sub, s) ==
    \E i \in 0..(Len(s) - Len(sub)) : SubSeq(s, i + 1, i + Len(sub)) = sub

\* f"<@{self.user_id}>"
Marker(uid) == <<"<@", uid, ">">>

Init ==
    /\ main = "new"
    /\ user_id = PyNone
    /\ channel_emojis = EmptyTable
    /\ event_queue = <<>>
    /\ processed_events = {}
    /\ hpc = [t \in Threads |-> "idle"]
    /\ hreq = [t \in Threads |-> NoReq]
    /\ nDelivered = 0
    /\ acks = {}
    /\ raised = {}
    /\ dpc = "l72"
    /\ cur = NoEvent
    /\ user_info = Absent
    /\ channel_info = Absent
    /\ trace = NoTrace
    /\ sent = <<>>
    /\ done = <<>>
    /\ accepted = <<>>

\* --------------------------------------------------------------- startup
\* get_user_id: auth_test answers, raises SlackApiError (None is returned)
\* or raises anything else (the constructor fails).
AuthOutcomes == {"ok", "SlackApiError", "OtherError"}

get_user_id(outcome) ==
    IF outcome = "ok" THEN OwnUserId ELSE PyNone

\* load_channel_emojis: the file content, or {} on any exception
load_channel_emojis(readable) ==
    IF readable THEN EmojiFile ELSE EmptyTable

\* __init__ followed by start(): the listener is registered, the dispatcher
\* task is created.
Construct ==
    /\ main = "new"
    /\ \E outcome \in AuthOutcomes, readable \in BOOLEAN :
         IF outcome = "OtherError"
         THEN /\ main' = "crashed"
              /\ UNCHANGED <<user_id, channel_emojis>>
         ELSE /\ main' = "running"
              /\ user_id' = get_user_id(outcome)
              /\ channel_emojis' = load_channel_emojis(readable)
    /\ UNCHANGED <<event_queue, processed_events, accepted>>
    /\ UNCHANGED hvars
    /\ UNCHANGED dvars

\* ------------------------------------------------ socket_mode_event_handler
\* The Socket Mode client calls the listener on an idle worker thread; the
\* workers are interchangeable, so it is the first idle one.
\* line 115: event = req.payload['event']  (KeyError without the key)
\* line 116: event_id = event.get('client_msg_id')
Deliver(t) ==
    /\ main = "running"
    /\ hpc[t] = "idle"
    /\ \A u \in Threads : u < t => hpc[u] # "idle"
    /\ nDelivered < MaxDeliveries
    /\ nDelivered' = nDelivered + 1
    /\ \E p \in Payloads :
         IF p.has_event
         THEN /\ hreq' = [hreq EXCEPT ![t] = [payload |-> p, envelope_id |-> nDelivered + 1]]
              /\ hpc' = [hpc EXCEPT ![t] = "l119"]
              /\ UNCHANGED raised
         ELSE /\ raised' = raised \cup {nDelivered + 1}
              /\ UNCHANGED <<hpc, hreq>>
    /\ UNCHANGED <<acks, event_queue, processed_events, accepted>>
    /\ UNCHANGED cvars
    /\ UNCHANGED dvars

\* line 119 without the truth test of event_id
IsNewEvent_NoTruthTest(event_id, processed) ==
    event_id \notin processed

\* line 119 without the membership test
IsNewEvent_NoMembershipTest(event_id, processed) ==
    Truthy(event_id)

\* line 119: if event_id and event_id not in self.processed_events
IsNewEvent(event_id, processed) ==
    Truthy(event_id) /\ event_id \notin processed

\* line 125: return SocketModeResponse(envelope_id=req.envelope_id)
Return(t) ==
    /\ acks' = acks \cup {hreq[t].envelope_id}
    /\ hpc' = [hpc EXCEPT ![t] = "idle"]
    /\ hreq' = [hreq EXCEPT ![t] = NoReq]

\* line 119, and on the else branch lines 123 and 125
H119(t) ==
    /\ hpc[t] = "l119"
    /\ IF IsNewEvent(hreq[t].payload.client_msg_id, processed_events)
       THEN /\ hpc' = [hpc EXCEPT ![t] = "l120"]
            /\ UNCHANGED <<hreq, acks>>
       ELSE Return(t)
    /\ UNCHANGED <<nDelivered, raised, event_queue, processed_events, accepted>>
    /\ UNCHANGED cvars
    /\ UNCHANGED dvars

\* line 120 on a queue of capacity one: put() waits until the dispatcher
\* has taken the element before
H120_WaitsForDispatcher(t) ==
    /\ hpc[t] = "l120"
    /\ Len(event_queue) = 0
    /\ event_queue' = Append(event_queue, hreq[t].payload)
    /\ accepted' = Append(accepted, hreq[t].payload)
    /\ hpc' = [hpc EXCEPT ![t] = "l121"]
    /\ UNCHANGED <<hreq, nDelivered, acks, raised, processed_events>>
    /\ UNCHANGED cvars
    /\ UNCHANGED dvars

\* line 120: self.event_queue.append(req.payload)
H120(t) ==
    /\ hpc[t] = "l120"
    /\ event_queue' = Append(event_queue, hreq[t].payload)
    /\ accepted' = Append(accepted, hreq[t].payload)
    /\ hpc' = [hpc EXCEPT ![t] = "l121"]
    /\ UNCHANGED <<hreq, nDelivered, acks, raised, processed_events>>
    /\ UNCHANGED cvars
    /\ UNCHANGED dvars

\* line 121: self.processed_events.add(event_id), then line 125
H121(t) ==
    /\ hpc[t] = "l121"
    /\ processed_events' = processed_events \cup {hreq[t].payload.client_msg_id}
    /\ Return(t)
    /\ UNCHANGED <<nDelivered, raised, event_queue, accepted>>
    /\ UNCHANGED cvars
    /\ UNCHANGED dvars

\* ------------------------------------- process_event_queue / process_message
\* the loop without the test of line 72
D72_NoTest ==
    /\ main = "running"
    /\ dpc = "l72"
    /\ dpc' = "l73"
    /\ UNCHANGED <<cur, user_info, channel_info, trace, sent, done>>
    /\ UNCHANGED <<event_queue, processed_events, accepted>>
    /\ UNCHANGED cvars
    /\ UNCHANGED hvars

\* line 72: if self.event_queue
D72 ==
    /\ main = "running"
    /\ dpc = "l72"
    /\ dpc' = IF Len(event_queue) > 0 THEN "l73" ELSE "l75"
    /\ UNCHANGED <<cur, user_info, channel_info, trace, sent, done>>
    /\ UNCHANGED <<event_queue, processed_events, accepted>>
    /\ UNCHANGED cvars
    /\ UNCHANGED hvars

\* deque.pop() in place of popleft(): the newest element
popleft_FromRight(q) == [item |-> q[Len(q)], rest |-> SubSeq(q, 1, Len(q) - 1)]

\* q[0] in place of popleft(): the element stays in the queue
popleft_Peek(q) == [item |-> Head(q), rest |-> q]

\* deque.popleft(): the element taken and the rest
popleft(q) == [item |-> Head(q), rest |-> Tail(q)]

\* the conditions of process_message without the test of line 88
PassesFilter_NoMarkerTest(event_data, uid) ==
    /\ event_data.has_event
    /\ event_data.type = "message"
    /\ event_data.text # NoText
    /\ Truthy(event_data.user)

\* the conditions of process_message without the test of line 87
PassesFilter_NoActorTest(event_data, uid) ==
    /\ event_data.has_event
    /\ event_data.type = "message"
    /\ event_data.text # NoText
    /\ Contains(Marker(uid), event_data.text)

\* lines 80-88: the three nested conditions of process_message
PassesFilter(event_data, uid) ==
    /\ event_data.has_event
    /\ event_data.type = "message"
    /\ event_data.text # NoText
    /\ Truthy(event_data.user)
    /\ Contains(Marker(uid), event_data.text)

\* process_message returns to line 75 of the loop
Returns(event_data) ==
    /\ dpc' = "l75"
    /\ done' = Append(done, event_data)
    /\ user_info' = Absent
    /\ channel_info' = Absent

\* line 73: event_data = self.event_queue.popleft()  (IndexError when empty)
\* line 74, 79-88: process_message is entered and filters the event
D73 ==
    /\ dpc = "l73"
    /\ IF Len(event_queue) = 0
       THEN /\ dpc' = "dead"
            /\ UNCHANGED <<cur, trace, event_queue, done, user_info, channel_info>>
       ELSE /\ cur' = popleft(event_queue).item
            /\ event_queue' = popleft(event_queue).rest
            /\ IF PassesFilter(popleft(event_queue).item, user_id)
               THEN /\ dpc' = "l91"
                    /\ trace' = NoTrace
                    /\ UNCHANGED <<done, user_info, channel_info>>
               ELSE /\ Returns(popleft(event_queue).item)
                    /\ trace' = [NoTrace EXCEPT !.returned = TRUE]
    /\ UNCHANGED sent
    /\ UNCHANGED <<processed_events, accepted>>
    /\ UNCHANGED cvars
    /\ UNCHANGED hvars

\* A Slack Web API call answers, raises SlackApiError (caught on line 108)
\* or raises another exception (connection error), which nothing catches.
LookupOutcomes == {"ok", "SlackApiError", "OtherError"}

\* the except clause logs and the message is built and sent all the same
AfterLookupError_GoesOn(outcome) ==
    /\ dpc' = "l104"
    /\ trace' = [trace EXCEPT !.lookups = @ + 1, !.lookup_failed = TRUE]
    /\ UNCHANGED <<done, user_info, channel_info>>

\* after the lookup raised: line 108-109, or the task ends with the exception
AfterLookupError(outcome) ==
    IF outcome = "SlackApiError"
    THEN /\ Returns(cur)
         /\ trace' = [trace EXCEPT !.lookups = @ + 1, !.lookup_failed = TRUE,
                                   !.returned = TRUE]
    ELSE /\ dpc' = "dead"
         /\ trace' = [trace EXCEPT !.lookups = @ + 1, !.lookup_failed = TRUE]
         /\ UNCHANGED <<done, user_info, channel_info>>

\* line 91: user_info = self.slack_client.users_info(user=user_id)
D91 ==
    /\ dpc = "l91"
    /\ \E outcome \in LookupOutcomes, result \in RealNames \cup {Malformed} :
         IF outcome = "ok"
         THEN /\ user_info' = result
              /\ trace' = [trace EXCEPT !.lookups = @ + 1]
              /\ dpc' = "l92"
              /\ UNCHANGED <<done, channel_info>>
         ELSE AfterLookupError(outcome)
    /\ UNCHANGED <<cur, sent>>
    /\ UNCHANGED <<event_queue, processed_events, accepted>>
    /\ UNCHANGED cvars
    /\ UNCHANGED hvars

\* line 92: channel_info = self.slack_client.conversations_info(channel=channel_id)
\* lines 94-102: user_info['user']['real_name'], channel_info['channel']['name']
\* raise TypeError/KeyError on a response without the field; nothing catches it.
D92 ==
    /\ dpc = "l92"
    /\ \E outcome \in LookupOutcomes, result \in ChannelNames \cup {Malformed} :
         IF outcome = "ok"
         THEN /\ channel_info' = result
              /\ trace' = [trace EXCEPT !.lookups = @ + 1]
              /\ dpc' = IF user_info = Malformed \/ result = Malformed
                        THEN "dead" ELSE "l104"
              /\ UNCHANGED <<done, user_info>>
         ELSE AfterLookupError(outcome)
    /\ UNCHANGED <<cur, sent>>
    /\ UNCHANGED <<event_queue, processed_events, accepted>>
    /\ UNCHANGED cvars
    /\ UNCHANGED hvars

\* self.channel_emojis.get(channel_name, channel_name)
EmojiOf_DefaultsToName(table, channel_name) ==
    IF channel_name \in DOMAIN table THEN table[channel_name] ELSE channel_name

\* self.channel_emojis.get(channel_name, '')
EmojiOf(table, channel_name) ==
    IF channel_name \in DOMAIN table THEN table[channel_name] ELSE ""

\* line 98: f"{channel_name} {emoji}"
channel_name_with_emoji(table, channel_name) ==
    <<channel_name, " ", EmojiOf(table, channel_name)>>

\* line 102: the message text, with the event it was built from
Message(table, event_data, user_name, channel_name) ==
    [channel |-> channel_name_with_emoji(table, channel_name),
     user |-> user_name,
     text |-> event_data.text,
     event |-> event_data]

\* lines 103-107 with an except clause that puts the event back into the queue
D104_Requeue ==
    /\ dpc = "l104"
    /\ \E delivered \in BOOLEAN :
         IF delivered
         THEN /\ sent' = Append(sent, Message(channel_emojis, cur, user_info, channel_info))
              /\ trace' = [trace EXCEPT !.sends = @ + 1, !.returned = TRUE]
              /\ UNCHANGED event_queue
         ELSE /\ UNCHANGED sent
              /\ trace' = [trace EXCEPT !.sends = @ + 1, !.send_failed = TRUE,
                                        !.returned = TRUE]
              /\ event_queue' = Append(event_queue, cur)
    /\ Returns(cur)
    /\ UNCHANGED cur
    /\ UNCHANGED <<processed_events, accepted>>
    /\ UNCHANGED cvars
    /\ UNCHANGED hvars

\* lines 103-107: await self.telegram_bot.send_message(...), any Exception caught
D104 ==
    /\ dpc = "l104"
    /\ \E delivered \in BOOLEAN :
         IF delivered
         THEN /\ sent' = Append(sent, Message(channel_emojis, cur, user_info, channel_info))
              /\ trace' = [trace EXCEPT !.sends = @ + 1, !.returned = TRUE]
         ELSE /\ UNCHANGED sent
              /\ trace' = [trace EXCEPT !.sends = @ + 1, !.send_failed = TRUE,
                                        !.returned = TRUE]
    /\ Returns(cur)
    /\ UNCHANGED cur
    /\ UNCHANGED <<event_queue, processed_events, accepted>>
    /\ UNCHANGED cvars
    /\ UNCHANGED hvars

\* line 75: await asyncio.sleep(1)
D75 ==
    /\ dpc = "l75"
    /\ dpc' = "l72"
    /\ UNCHANGED <<cur, user_info, channel_info, trace, sent, done>>
    /\ UNCHANGED <<event_queue, processed_events, accepted>>
    /\ UNCHANGED cvars
    /\ UNCHANGED hvars

Handler(t) == Deliver(t) \/ H119(t) \/ H120(t) \/ H121(t)
Dispatcher == D72 \/ D73 \/ D91 \/ D92 \/ D104 \/ D75

Next ==
    \/ Construct
    \/ \E t \in Threads : Handler(t)
    \/ Dispatcher

Spec == Init /\ [][Next]_vars

\* ------------------------------------------------------------------ types
TypeOK ==
    /\ main \in {"new", "running", "crashed"}
    /\ user_id \in {OwnUserId, PyNone}
    /\ channel_emojis \in {EmojiFile, EmptyTable}
    /\ \A i \in 1..Len(event_queue) : event_queue[i] \in EventPayloads
    /\ processed_events \subseteq MsgIds
    /\ hpc \in [Threads -> {"idle", "l119", "l120", "l121"}]
    /\ nDelivered \in 0..MaxDeliveries
    /\ dpc \in {"l72", "l73", "l75", "l91", "l92", "l104", "dead"}
    /\ cur \in EventPayloads \cup {NoEvent}
    /\ trace.lookups \in 0..2
    /\ trace.sends \in 0..1

\* ================================================================ claims
\* the text of an event contains the marker of the running bot
HasMarker(event_data) ==
    event_data.text # NoText /\ Contains(Marker(user_id), event_data.text)

\* the dispatcher holds a dequeued event whose process_message has not returned
InFlight == cur # NoEvent /\ ~trace.returned
\* process_message has returned for the event the dispatcher dequeued last
Finished == cur # NoEvent /\ trace.returned
\* the Telegram message for cur has been sent
Notified == trace.sends = 1 /\ ~trace.send_failed

NotificationsFor(id) == {i \in 1..Len(sent) : sent[i].event.client_msg_id = id}
AppendsFor(id) == {i \in 1..Len(accepted) : accepted[i].client_msg_id = id}

\* C1: however often an event with identifier id is delivered, at most one
\* notification for id is ever sent to the sink.
C1_AtMostOneNotificationPerId ==
    \A id \in MsgIds : Cardinality(NotificationsFor(id)) <= 1

\* C2: of the handler invocations for one eventId, also concurrent ones, at
\* most one appends the event to event_queue.
C2_AtMostOneAppendPerId ==
    \A id \in MsgIds : Cardinality(AppendsFor(id)) <= 1

\* C3: in every state, also between two lines of the handler, every event in
\* event_queue has its eventId in processed_events.
C3_InsertBeforeEnqueue ==
    \A i \in 1..Len(event_queue) : event_queue[i].client_msg_id \in processed_events

\* C4 as claimed: a handler invocation whose event has no eventId goes on from
\* the check of line 119 to the append of line 120.
C4_IdlessIsEnqueued ==
    [][\A t \in Threads :
         (hpc[t] = "l119" /\ ~Truthy(hreq[t].payload.client_msg_id) /\ hpc'[t] # "l119")
            => hpc'[t] = "l120"]_vars

\* C4 amended: an event without eventId (absent or empty) is never appended
\* to event_queue and never reaches lines 120-121, and processed_events never
\* holds an absent or empty id.
C4_IdlessIsDiscarded ==
    /\ \A i \in 1..Len(accepted) : Truthy(accepted[i].client_msg_id)
    /\ \A id \in processed_events : Truthy(id)
    /\ \A t \in Threads :
         ~Truthy(hreq[t].payload.client_msg_id) => hpc[t] \in {"idle", "l119"}

\* C4 witness: the only delivery so far carried an event, was acknowledged and
\* left the queue and the dedup set empty; with nothing in processed_events
\* that is a delivery without eventId.
C4_Witness ==
    /\ nDelivered = 1 /\ acks = {1} /\ raised = {}
    /\ accepted = <<>> /\ processed_events = {}

\* C5: the events the dispatcher has dequeued are a prefix of the events
\* accepted, in the order of acceptance; all of them but the one in flight
\* have finished, and the rest is the queue in that order.
C5_FifoOrder ==
    (done \o (IF InFlight THEN <<cur>> ELSE <<>>)) \o event_queue = accepted

\* C5 witness: two different events have been processed one after the other.
C5_Witness ==
    Len(done) = 2 /\ done[1] # done[2]

\* C6: no invocation of the intake handler raises.
C6_HandlerNeverRaises ==
    raised = {}

\* C7 as claimed: a processed event without the marker caused no lookup and
\* no notification; a processed 'message' event with the marker and an actor
\* produced a notification.
C7_MentionFilterAsClaimed ==
    Finished =>
        IF cur.type = "message" /\ HasMarker(cur) /\ Truthy(cur.user)
        THEN Notified
        ELSE trace.lookups = 0 /\ trace.sends = 0

\* C7 amended: an event without the marker never causes a lookup or a
\* notification; a processed 'message' event with the marker and an actor
\* produced a notification unless a lookup or the sink call failed.
C7_MentionFilter ==
    /\ (cur # NoEvent /\ ~HasMarker(cur)) => (trace.lookups = 0 /\ trace.sends = 0)
    /\ \A i \in 1..Len(sent) :
         sent[i].text # NoText /\ Contains(Marker(user_id), sent[i].text)
    /\ (Finished /\ cur.type = "message" /\ HasMarker(cur) /\ Truthy(cur.user)
          /\ ~trace.lookup_failed /\ ~trace.send_failed) => Notified

\* C7 witness: an event with the marker has been relayed.
C7_Witness ==
    /\ Finished /\ HasMarker(cur) /\ Notified
    /\ Len(sent) >= 1 /\ sent[Len(sent)].event = cur

\* C8: after get_user_id has failed (self.user_id is None) no notification is
\* ever sent.
C8_NoRelayWithoutIdentity ==
    user_id = PyNone => sent = <<>>

\* C9: a 'message' event whose text has the marker and that has no actor
\* causes no lookup and no notification, and process_message returns.
C9_MissingActor ==
    /\ (cur # NoEvent /\ cur.type = "message" /\ HasMarker(cur) /\ ~Truthy(cur.user))
          => (trace.lookups = 0 /\ trace.sends = 0 /\ trace.returned /\ dpc # "dead")
    /\ \A i \in 1..Len(sent) : Truthy(sent[i].event.user)

\* C9 witness: a mention without actor was processed first, and the loop went
\* on to process the next event.
C9_Witness ==
    /\ Len(done) = 2
    /\ done[1].type = "message" /\ HasMarker(done[1]) /\ ~Truthy(done[1].user)

\* C10: a failed lookup leaves the dispatcher loop running.
C10_LookupFailureIsolated ==
    trace.lookup_failed => dpc # "dead"

\* C11: once a lookup for the dequeued event has failed, no further lookup and
\* no send is attempted for it; a send is attempted only after two lookups
\* that both succeeded, and every message sent carries both resolved names.
C11_NoPartialNotification ==
    /\ trace.lookup_failed =>
           (trace.sends = 0 /\ dpc \notin {"l91", "l92", "l104"})
    /\ (trace.sends > 0 \/ dpc = "l104") =>
           (trace.lookups = 2 /\ ~trace.lookup_failed)
    /\ \A i \in 1..Len(sent) :
           sent[i].user \in RealNames /\ sent[i].channel[1] \in ChannelNames

\* C11 witness: the first lookup succeeded, the second one failed with
\* SlackApiError, and process_message returned without a send.
C11_Witness ==
    Finished /\ trace.lookups = 2 /\ trace.lookup_failed /\ trace.sends = 0

\* C12: after a failed send the event has had exactly one send attempt,
\* process_message has returned, the loop is running, and the queue holds
\* nothing but accepted events not yet dequeued.
C12_SinkFailureTerminal ==
    trace.send_failed =>
        /\ trace.sends = 1
        /\ Finished /\ dpc # "dead"
        /\ done[Len(done)] = cur
        /\ Len(done) + Len(event_queue) = Len(accepted)

\* C12 witness: the send for the last event failed and the loop has gone on to
\* take the next queued event.
C12_Witness ==
    trace.send_failed /\ dpc = "l73" /\ Len(event_queue) > 0

\* C13: the channel display of every message sent is the channel name, a
\* space and the label: "wrench" for general when the table was loaded, the
\* empty string for a name the table lacks.
C13_LabelComposition ==
    \A i \in 1..Len(sent) :
        /\ Len(sent[i].channel) = 3
        /\ sent[i].channel[2] = " "
        /\ sent[i].channel[3] =
              IF channel_emojis = EmojiFile /\ sent[i].channel[1] = "general"
              THEN "wrench" ELSE ""

\* C13 witness: with the table loaded, a message for a channel the table
\* lacks has been sent with the display "random ".
C13_Witness ==
    /\ channel_emojis = EmojiFile
    /\ \E i \in 1..Len(sent) : sent[i].channel = <<"random", " ", "">>

\* C14: nothing that happens while an event is processed ends the dispatcher
\* loop.
C14_DispatcherNeverStops ==
    dpc # "dead"

\* C15: whatever the dispatcher is doing and however long the queue is, a
\* handler invocation under way can take its next step, and a request can be
\* handed to an idle worker.
C15_IntakeNeverBlocked ==
    /\ \A t \in Threads :
         hpc[t] # "idle" => ENABLED (H119(t) \/ H120(t) \/ H121(t))
    /\ (main = "running" /\ nDelivered < MaxDeliveries
          /\ \E t \in Threads : hpc[t] = "idle")
         => ENABLED (\E t \in Threads : Deliver(t))

\* C15 witness: a handler is about to append while the dispatcher is
\* suspended in a lookup or in the send.
C15_Witness ==
    /\ dpc \in {"l91", "l92", "l104"}
    /\ \E t \in Threads : hpc[t] = "l120"

\* C16: the step of an invocation that finds its eventId in processed_events
\* leaves event_queue and processed_events as they were, and acknowledges.
C16_DuplicateChangesNothing ==
    [][\A t \in Threads :
         (hpc[t] = "l119" /\ hreq[t].payload.client_msg_id \in processed_events
            /\ hpc'[t] # "l119")
         => (/\ UNCHANGED <<event_queue, processed_events, accepted>>
             /\ hpc'[t] = "idle"
             /\ hreq[t].envelope_id \in acks')]_vars

\* C16 witness: an invocation stands at the check of line 119 with an eventId
\* that is in processed_events, its event having been accepted before.
C16_Witness ==
    \E t \in Threads :
        /\ hpc[t] = "l119"
        /\ hreq[t].payload.client_msg_id \in processed_events
        /\ AppendsFor(hreq[t].payload.client_msg_id) # {}

\* C17: the dispatcher stands at popleft only with a non-empty queue.
C17_PopOnlyNonEmpty ==
    dpc = "l73" => Len(event_queue) > 0

\* C17 witness: between the test of line 72 and popleft a handler is about to
\* append.
C17_Witness ==
    dpc = "l73" /\ \E t \in Threads : hpc[t] = "l120"

Count(seq, p) == Cardinality({i \in 1..Len(seq) : seq[i] = p})

DoneFor(id) == {i \in 1..Len(done) : done[i].client_msg_id = id}

\* C19: once the processing of an event with identifier id has ended without
\* a notification, no notification for id is sent any more.
C19_FailedNeverRecovered ==
    [][\A id \in MsgIds :
         Cardinality(DoneFor(id)) > Cardinality(NotificationsFor(id))
            => NotificationsFor(id)' = NotificationsFor(id)]_vars

====
